---------------------------- MODULE Spec2Model ----------------------------
(***************************************************************************)
(* A model of the D64 disk-image engine of juster/c64: track/sector        *)
(* geometry, the block availability map (BAM), the block allocator, the    *)
(* directory chain and the file block chain.                               *)
(*                                                                         *)
(* A track/sector address is a record [T, S] of two bytes.  A byte is a    *)
(* number in 0..255 and byte arithmetic wraps modulo 256 as Go's uint8.    *)
(* A Go panic ends the program: pc = "panic" and no action is enabled.     *)
(***************************************************************************)
EXTENDS Integers, Sequences, FiniteSets, TLC

VARIABLES
    pc,        \* "new" (zeroed image), "ready" (after Img.Init), "panic"
    bam,       \* BAM.AvailMap: track 1..35 -> [Count, free]  (AvailMap[track-1])
    dirTS,     \* BAM.DirTS
    diskName,  \* BAM.DiskName, 16 bytes
    dirs,      \* the directory blocks written so far: TS -> DirBlock
    blks,      \* the file blocks written so far: TS -> RawBlock
    allocs,    \* the Allocator values in use: id -> Allocator
    last,      \* the most recent call: what was called, with what, its result
    prev,      \* the call before it
    walk,      \* the tracks a track policy has yielded so far, first the start
    buf,       \* the bytes of the input file given to createFile
    fh,        \* the files of the diskFS: name -> dirEntryFile [blk, slot, iter, offset]
    out        \* the bytes the Read calls on fh have returned so far

file == <<buf, fh, out>>
vars == <<pc, bam, dirTS, diskName, dirs, blks, allocs, last, prev, walk, buf, fh, out>>

----------------------------------------------------------------------------
(* Program constants *)

blockSize == 256
totalTrackCount == 35
totalByteCount == 174848
bamTrack == 18
SectorFileStagger == 10
SectorDirStagger == 3
padByte == 160
Scratched == 0
DEL == 128
SEQ == 129
PRG == 130
USR == 131
REL == 132

Byte(n) == n % 256

TS(t, s) == [T |-> t, S |-> s]

\* A local variable: In applied to the value v, computed once
Bind(v, In(_)) == In(v)

----------------------------------------------------------------------------
(* Geometry table and track/sector addresses *)

geometry ==
    << [trackMin |-> 1,  trackMax |-> 17, sectorCount |-> 21, sectorOffset |-> 0],
       [trackMin |-> 18, trackMax |-> 24, sectorCount |-> 19, sectorOffset |-> 357],
       [trackMin |-> 25, trackMax |-> 30, sectorCount |-> 18, sectorOffset |-> 490],
       [trackMin |-> 31, trackMax |-> 40, sectorCount |-> 17, sectorOffset |-> 598] >>

\* geometryTable.Lookup: the first zone holding the track; ok = FALSE is BadTS.
Lookup(track) ==
    LET hits == {k \in 1..Len(geometry) :
                    geometry[k].trackMin <= track /\ track <= geometry[k].trackMax}
    IN  IF hits = {} THEN [ok |-> FALSE, g |-> geometry[1]]
        ELSE [ok |-> TRUE,
              g |-> geometry[CHOOSE k \in hits : \A k2 \in hits : k <= k2]]

\* sectorCount(track); the caller must have checked Lookup(track).ok, the
\* code panics otherwise.
sectorCount(track) == Lookup(track).g.sectorCount

\* TS.Offset as it would be with the sector test off by one
OffsetSectorOffByOne(ts) ==
    IF ts.T < 1 THEN [ok |-> FALSE, off |-> 0]
    ELSE LET l == Lookup(ts.T) IN
         IF ~l.ok THEN [ok |-> FALSE, off |-> 0]
         ELSE IF l.g.sectorCount < ts.S THEN [ok |-> FALSE, off |-> 0]
         ELSE [ok |-> TRUE,
               off |-> blockSize * (l.g.sectorOffset
                                     + (ts.T - l.g.trackMin) * l.g.sectorCount
                                     + ts.S)]

\* TS.Offset: [ok, off]; ok = FALSE is BadTS.
Offset(ts) ==
    IF ts.T < 1 THEN [ok |-> FALSE, off |-> 0]
    ELSE LET l == Lookup(ts.T) IN
         IF ~l.ok THEN [ok |-> FALSE, off |-> 0]
         ELSE IF l.g.sectorCount <= ts.S THEN [ok |-> FALSE, off |-> 0]
         ELSE [ok |-> TRUE,
               off |-> blockSize * (l.g.sectorOffset
                                     + (ts.T - l.g.trackMin) * l.g.sectorCount
                                     + ts.S)]

\* TS.IsValid
IsValid(ts) ==
    LET l == Lookup(ts.T) IN IF ~l.ok THEN FALSE ELSE ts.S < l.g.sectorCount

\* Img.Block: "ok" when the block view is returned, else the panic.
BlockOutcome(ts) ==
    LET o == Offset(ts) IN
    IF ~o.ok THEN "panic"
    ELSE IF o.off + blockSize > totalByteCount THEN "panic"
    ELSE "ok"

\* Img.Block: "ok", or the value it panics with
BlockResult(ts) ==
    LET o == Offset(ts) IN
    IF ~o.ok THEN "BadTS"
    ELSE IF o.off + blockSize > totalByteCount THEN "overflow"
    ELSE "ok"

----------------------------------------------------------------------------
(* Padding codec: strings are sequences of bytes *)

\* PadString(str, n) for Len(str) <= n (the code panics otherwise)
PadString(str, n) == [i \in 1..n |-> IF i <= Len(str) THEN str[i] ELSE padByte]

\* UnpadBytes: cut after the last byte that is not the pad byte
UnpadBytes(b) ==
    LET keep == {i \in 1..Len(b) : b[i] # padByte}
    IN  IF keep = {} THEN << >>
        ELSE SubSeq(b, 1, CHOOSE i \in keep : \A k \in keep : k <= i)

----------------------------------------------------------------------------
(* Bit operations on bytes *)

Bit(x, k) == (x \div (2 ^ k)) % 2

\* x & y, x | y, x ^ y on bytes, bit by bit
AndBit(x, y, k) == IF Bit(x, k) = 1 /\ Bit(y, k) = 1 THEN 2 ^ k ELSE 0
OrBit(x, y, k)  == IF Bit(x, k) = 1 \/ Bit(y, k) = 1 THEN 2 ^ k ELSE 0
XorBit(x, y, k) == IF Bit(x, k) # Bit(y, k) THEN 2 ^ k ELSE 0

BitAnd(x, y) ==
    AndBit(x, y, 0) + AndBit(x, y, 1) + AndBit(x, y, 2) + AndBit(x, y, 3)
    + AndBit(x, y, 4) + AndBit(x, y, 5) + AndBit(x, y, 6) + AndBit(x, y, 7)
BitOr(x, y) ==
    OrBit(x, y, 0) + OrBit(x, y, 1) + OrBit(x, y, 2) + OrBit(x, y, 3)
    + OrBit(x, y, 4) + OrBit(x, y, 5) + OrBit(x, y, 6) + OrBit(x, y, 7)
BitXor(x, y) ==
    XorBit(x, y, 0) + XorBit(x, y, 1) + XorBit(x, y, 2) + XorBit(x, y, 3)
    + XorBit(x, y, 4) + XorBit(x, y, 5) + XorBit(x, y, 6) + XorBit(x, y, 7)

\* number of set bits of the three bitmap bytes
PopCount(free) ==
    Cardinality({<<i, k>> \in (1..3) \X (0..7) : Bit(free[i], k) = 1})

----------------------------------------------------------------------------
(* Block availability map *)

ZeroEntry == [Count |-> 0, free |-> <<0, 0, 0>>]
ZeroAvailMap == [t \in 1..totalTrackCount |-> ZeroEntry]

\* The loop of BAM.Init: i is the 0-based index into AvailMap, j the 0-based
\* index into geometry, advanced at most once per iteration.
RECURSIVE BAMInitLoop(_, _, _)
BAMInitLoop(i, j, m) ==
    IF i >= totalTrackCount THEN m
    ELSE LET j2 == IF Byte(i + 1) > geometry[j + 1].trackMax THEN j + 1 ELSE j
         IN  BAMInitLoop(i + 1, j2,
                 [m EXCEPT ![i + 1] = [Count |-> geometry[j2 + 1].sectorCount,
                                       free  |-> <<255, 255, 255>>]])

\* BAM.Init: [err, map]
BAMInit(m, name, id) ==
    IF Len(name) > 16 THEN [err |-> "name overflow", map |-> m]
    ELSE IF Len(id) # 2 THEN [err |-> "invalid disk id", map |-> m]
    ELSE [err |-> "nil", map |-> BAMInitLoop(0, 0, m)]

\* BAM.Entry as it would be without the test of the sector number
EntryNoSectorCheck(ts) ==
    IF ts.T >= totalTrackCount THEN "nil"
    ELSE IF Byte(ts.T - 1) >= totalTrackCount THEN "panic"
    ELSE "ok"

\* BAM.Entry: "nil", "panic" (index out of range of AvailMap) or "ok";
\* an "ok" entry is AvailMap[ts.T - 1], which the model keys by ts.T.
Entry(ts) ==
    IF ts.T >= totalTrackCount THEN "nil"
    ELSE IF ts.S >= 32 THEN "nil"
    ELSE IF Byte(ts.T - 1) >= totalTrackCount THEN "panic"
    ELSE "ok"

\* The index and mask of a sector's bit: i, j := ts.S / 8, byte(1 << (ts.S % 8))
BitIndex(ts) == ts.S \div 8
BitMask(ts) == Byte(2 ^ (ts.S % 8))

\* BAM.Alloc as it would be without the test of the bit before it is flipped
BAMAllocNoConflictCheck(m, ts) ==
    LET e == Entry(ts) IN
    IF e = "nil" THEN [res |-> "OutOfRange", map |-> m]
    ELSE IF e = "panic" THEN [res |-> "panic", map |-> m]
    ELSE LET ent == m[ts.T]
             i == BitIndex(ts)
             j == BitMask(ts)
         IN  IF ent.Count = 0 THEN [res |-> "NoCount", map |-> m]
             ELSE IF i >= 3 THEN [res |-> "panic", map |-> m]
             ELSE [res |-> "nil",
                   map |-> [m EXCEPT ![ts.T] =
                              [Count |-> Byte(ent.Count + 255),
                               free  |-> [ent.free EXCEPT
                                            ![i + 1] = BitXor(ent.free[i + 1], j)]]]]

\* BAM.Alloc: [res, map]; res is "nil" on success, an error ("NoCount" is
\* "available count already 0"), or "panic" (free[i] with i >= 3 is an index
\* out of range).
BAMAlloc(m, ts) ==
    LET e == Entry(ts) IN
    IF e = "nil" THEN [res |-> "OutOfRange", map |-> m]
    ELSE IF e = "panic" THEN [res |-> "panic", map |-> m]
    ELSE LET ent == m[ts.T]
             i == BitIndex(ts)
             j == BitMask(ts)
         IN  IF ent.Count = 0 THEN [res |-> "NoCount", map |-> m]
             ELSE IF i >= 3 THEN [res |-> "panic", map |-> m]
             ELSE LET x == ent.free[i + 1] IN
                  IF BitAnd(x, j) = 0 THEN [res |-> "BAMConflict", map |-> m]
                  ELSE [res |-> "nil",
                        map |-> [m EXCEPT ![ts.T] =
                                   [Count |-> Byte(ent.Count + 255),
                                    free  |-> [ent.free EXCEPT ![i + 1] = BitXor(x, j)]]]]

\* BAM.Free: [res, map]
BAMFree(m, ts) ==
    LET e == Entry(ts) IN
    IF e = "nil" THEN [res |-> "OutOfRange", map |-> m]
    ELSE IF e = "panic" THEN [res |-> "panic", map |-> m]
    ELSE LET ent == m[ts.T]
             i == BitIndex(ts)
             j == BitMask(ts)
         IN  IF i >= 3 THEN [res |-> "panic", map |-> m]
             ELSE LET x == ent.free[i + 1] IN
                  IF BitAnd(x, j) > 0 THEN [res |-> "BAMConflict", map |-> m]
                  ELSE [res |-> "nil",
                        map |-> [m EXCEPT ![ts.T] =
                                   [Count |-> Byte(ent.Count + 1),
                                    free  |-> [ent.free EXCEPT ![i + 1] = BitOr(x, j)]]]]

\* BAM.Avail: "true", "false" or "panic"
Avail(m, ts) ==
    LET e == Entry(ts) IN
    IF e # "ok" THEN "panic"
    ELSE IF BitIndex(ts) >= 3 THEN "panic"
    ELSE IF BitAnd(m[ts.T].free[BitIndex(ts) + 1], BitMask(ts)) > 0 THEN "true"
    ELSE "false"

----------------------------------------------------------------------------
(* Directory blocks *)

ZeroTS == TS(0, 0)
\* The address of the BAM block, Img.BAM
bamTrackTS == TS(bamTrack, 0)
DirEnd == TS(0, 255)

ZeroDirEntry ==
    [DirLink |-> ZeroTS, FileType |-> Scratched, FileTS |-> ZeroTS,
     Filename |-> [i \in 1..16 |-> 0], BlockSizeLo |-> 0, BlockSizeHi |-> 0]

\* A block of the zeroed image seen as a DirBlock
ZeroDirBlock == [Files |-> [i \in 1..8 |-> ZeroDirEntry]]

\* The directory block at ts: as written, or still zero
DirAt(d, ts) == IF ts \in DOMAIN d THEN d[ts] ELSE ZeroDirBlock

PutDir(d, ts, blk) == [x \in (DOMAIN d) \cup {ts} |-> IF x = ts THEN blk ELSE d[x]]

\* DirBlock.SetNext
SetNext(blk, ts) == [blk EXCEPT !.Files[1].DirLink = ts]

\* DirBlock.Init
DirBlockInit(blk) == SetNext(blk, DirEnd)

\* DirBlock.Next: [ts, ok]
DirNext(blk) ==
    LET ts == blk.Files[1].DirLink
    IN  IF ts.T = 0 /\ ts.S = 255 THEN [ts |-> ts, ok |-> FALSE]
        ELSE [ts |-> ts, ok |-> TRUE]

\* DirBlock.NextAvail: the 1-based slot of the first Scratched entry, 0 for nil
NextAvail(blk) ==
    LET free == {i \in 1..8 : blk.Files[i].FileType = Scratched}
    IN  IF free = {} THEN 0 ELSE CHOOSE i \in free : \A k \in free : i <= k

----------------------------------------------------------------------------
(* The image before and after Img.Init *)

NoBlocks == [x \in {} |-> 0]

\* What a call record keeps of the state the call started in
Before == [bam |-> bam, dirs |-> dirs, allocs |-> allocs]

\* A call record: the operation, its address argument or result, its result,
\* a further argument or result (a slot, a size, an allocator), the state before
Call(op, ts, res, arg) ==
    [op |-> op, ts |-> ts, res |-> res, arg |-> arg, before |-> Before]

NoCall ==
    [op |-> "none", ts |-> ZeroTS, res |-> "nil", arg |-> 0,
     before |-> [bam |-> ZeroAvailMap, dirs |-> NoBlocks, allocs |-> NoBlocks]]

\* Img.Init as it would be without bam.Alloc of the first directory block
ImgInitDirBlockNotTaken(name, id) ==
    LET r == BAMInit(bam, name, id) IN
    IF r.err # "nil"
    THEN [err |-> r.err, bam |-> bam, dirTS |-> dirTS, diskName |-> diskName,
          dirs |-> dirs]
    ELSE LET dirts == TS(bamTrack, 1)
             m1 == BAMAlloc(r.map, TS(bamTrack, 0)).map
             m2 == m1
         IN  [err |-> "nil", bam |-> m2, dirTS |-> dirts,
              diskName |-> PadString(name, 16),
              dirs |-> PutDir(dirs, dirts, DirBlockInit(DirAt(dirs, dirts)))]

\* Img.Init: [err, bam, dirTS, diskName, dirs]; the results of the two
\* bam.Alloc calls are dropped, as the code drops them.
ImgInit(name, id) ==
    LET r == BAMInit(bam, name, id) IN
    IF r.err # "nil"
    THEN [err |-> r.err, bam |-> bam, dirTS |-> dirTS, diskName |-> diskName,
          dirs |-> dirs]
    ELSE LET dirts == TS(bamTrack, 1)
             m1 == BAMAlloc(r.map, TS(bamTrack, 0)).map
             m2 == BAMAlloc(m1, TS(bamTrack, 1)).map
         IN  [err |-> "nil", bam |-> m2, dirTS |-> dirts,
              diskName |-> PadString(name, 16),
              dirs |-> PutDir(dirs, dirts, DirBlockInit(DirAt(dirs, dirts)))]

\* No diskFS has been built
NoFiles == [x \in {} |-> 0]

\* var d Img: every byte zero
ZeroImage ==
    /\ pc = "new"
    /\ bam = ZeroAvailMap
    /\ dirTS = ZeroTS
    /\ diskName = [i \in 1..16 |-> 0]
    /\ dirs = NoBlocks
    /\ blks = NoBlocks

\* No allocator made, no call made, no file read or written yet
NothingElse ==
    /\ allocs = NoBlocks
    /\ last = NoCall
    /\ prev = NoCall
    /\ walk = << >>
    /\ buf = << >>
    /\ fh = NoFiles
    /\ out = << >>

NewImage == ZeroImage /\ NothingElse

\* Disk names and ids given to Img.Init: 16 and 17 bytes, 2 and 3 bytes
NameInputs == {[i \in 1..16 |-> 65], [i \in 1..17 |-> 65]}
IdInputs == {<<1, 2>>, <<1, 2, 3>>}

\* d.Init(name, id) on the zeroed image
DoImgInit ==
    /\ pc = "new"
    /\ \E name \in NameInputs, id \in IdInputs :
         LET r == ImgInit(name, id) IN
         /\ bam' = r.bam
         /\ dirTS' = r.dirTS
         /\ diskName' = r.diskName
         /\ dirs' = r.dirs
         /\ pc' = IF r.err = "nil" THEN "ready" ELSE "new"
         /\ last' = Call("Init", ZeroTS, r.err, Len(name))
    /\ prev' = last
    /\ UNCHANGED <<blks, allocs, walk, file>>

----------------------------------------------------------------------------
(* SpecBAM: BAM.Alloc and BAM.Free called on an initialised image *)

\* The track whose sectors are taken and given back in order
FillTrack == 18

\* Addresses the calls are tried with: sector numbers past a track's last
\* sector and past the bitmap, and tracks around the end of the table
ProbeTS ==
    { TS(1, 21), TS(1, 24), TS(1, 32),
      TS(FillTrack, 23), TS(34, 0), TS(35, 0), TS(36, 0) }

\* The next sector of FillTrack to take (its lowest available sector) and
\* the next to give back (its highest unavailable sector)
FillWindow(m) ==
    LET real == 0 .. (sectorCount(FillTrack) - 1)
        set(s) == Bit(m[FillTrack].free[(s \div 8) + 1], s % 8) = 1
        av == {s \in real : set(s)}
        un == {s \in real : ~set(s)}
    IN  {TS(FillTrack, s) : s \in {x \in av : \A y \in av : x <= y}}
        \cup {TS(FillTrack, s) : s \in {x \in un : \A y \in un : y <= x}}

BAMInputs(m) == ProbeTS \cup FillWindow(m)

\* bam.Alloc(ts)
DoBAMAlloc ==
    /\ pc = "ready"
    /\ \E ts \in BAMInputs(bam) :
         LET r == BAMAlloc(bam, ts) IN
         /\ bam' = r.map
         /\ pc' = IF r.res = "panic" THEN "panic" ELSE pc
         /\ last' = Call("Alloc", ts, r.res, 0)
    /\ prev' = last
    /\ UNCHANGED <<dirTS, diskName, dirs, blks, allocs, walk, file>>

\* bam.Free(ts)
DoBAMFree ==
    /\ pc = "ready"
    /\ \E ts \in BAMInputs(bam) :
         LET r == BAMFree(bam, ts) IN
         /\ bam' = r.map
         /\ pc' = IF r.res = "panic" THEN "panic" ELSE pc
         /\ last' = Call("Free", ts, r.res, 0)
    /\ prev' = last
    /\ UNCHANGED <<dirTS, diskName, dirs, blks, allocs, walk, file>>

NextBAM == DoImgInit \/ DoBAMAlloc \/ DoBAMFree

SpecBAM == NewImage /\ [][NextBAM]_vars

----------------------------------------------------------------------------
(* Claims about the BAM, checked under SpecBAM *)

\* C1: in every state reached from Img.Init by BAM.Alloc and BAM.Free calls,
\* every track's Count equals the number of set bits of its free bitmap.
C1_CountIsPopCount ==
    pc = "ready" =>
        \A t \in 1..totalTrackCount : bam[t].Count = PopCount(bam[t].free)

\* Two calls of the same operation on the same address, one right after the
\* other, the address being one BAM.Entry accepts
Twice(op) ==
    /\ prev.op = op
    /\ last.op = op
    /\ last.ts = prev.ts
    /\ Entry(last.ts) = "ok"

\* C2 as claimed: the second of two Alloc calls, and of two Free calls, on the
\* same address returns Conflict, and a call that returns Conflict changes
\* neither Count nor the bitmap.
C2_SecondCallConflicts ==
    /\ Twice("Alloc") => last.res = "BAMConflict"
    /\ Twice("Free") => last.res = "BAMConflict"
    /\ last.res = "BAMConflict" => bam = last.before.bam

\* C2 as amended: the second Alloc returns Conflict when the track's Count is
\* not zero after the first call and the exhaustion error when it is zero;
\* the second Free returns Conflict; a call that returns Conflict or the
\* exhaustion error changes neither Count nor the bitmap.
C2_SecondCallConflictsOrNoCount ==
    /\ Twice("Alloc") =>
          last.res = IF last.before.bam[last.ts.T].Count = 0
                     THEN "NoCount" ELSE "BAMConflict"
    /\ Twice("Free") => last.res = "BAMConflict"
    /\ last.res \in {"BAMConflict", "NoCount"} => bam = last.before.bam

\* C2 witness: a sector is taken and taken again, and the second call
\* returned Conflict
C2_Witness ==
    /\ Twice("Alloc")
    /\ IsValid(last.ts)
    /\ prev.res = "nil"
    /\ last.res = "BAMConflict"

\* C3 as claimed: Alloc of an available (valid) address succeeds, the Free
\* after it succeeds and leaves every track's entry as it was before the
\* Alloc, and the Alloc after that Free succeeds again.
C3_AllocFreeAlternate ==
    /\ (/\ last.op = "Alloc"
        /\ IsValid(last.ts)
        /\ Avail(last.before.bam, last.ts) = "true") => last.res = "nil"
    /\ (/\ prev.op = "Alloc" /\ prev.res = "nil"
        /\ last.op = "Free" /\ last.ts = prev.ts)
           => (last.res = "nil" /\ bam = prev.before.bam)
    /\ (/\ prev.op = "Free" /\ prev.res = "nil"
        /\ last.op = "Alloc" /\ last.ts = prev.ts) => last.res = "nil"

----------------------------------------------------------------------------
(* Allocator *)

\* defaultNextTrack with a different limit for the tracks above the BAM track
defaultNextTrackBelowLimit(prv) ==
    LET up == Byte(prv + 1)
        p2 == IF prv > bamTrack THEN bamTrack ELSE prv
        down == Byte(p2 + 255)
    IN  IF prv > bamTrack /\ up < totalTrackCount THEN up
        ELSE IF down > 0 THEN down
        ELSE 0

\* defaultNextTrack: the track after prv, 0 when there is none
defaultNextTrack(prv) ==
    LET up == Byte(prv + 1)
        p2 == IF prv > bamTrack THEN bamTrack ELSE prv
        down == Byte(p2 + 255)
    IN  IF prv > bamTrack /\ up <= totalTrackCount THEN up
        ELSE IF down > 0 THEN down
        ELSE 0

\* Allocator.NextTrack: "default" is defaultNextTrack, "dir" the policy
\* Img.NewDirEntry installs (no further track)
NextTrack(policy, prv) == IF policy = "default" THEN defaultNextTrack(prv) ELSE 0

\* BAM.NewAllocator
\* BAM.NewAllocator as it would be if it started on the BAM track
NewAllocatorOnBAMTrack ==
    [TS |-> TS(bamTrack, 0), SectorStagger |-> SectorFileStagger,
     NextTrack |-> "default"]

NewAllocator ==
    [TS |-> TS(bamTrack + 1, 0), SectorStagger |-> SectorFileStagger,
     NextTrack |-> "default"]

\* The allocator of Img.NewDirEntry
DirAllocator ==
    [TS |-> dirTS, SectorStagger |-> SectorDirStagger, NextTrack |-> "dir"]

\* The loop of Allocator.nextAvailBlock: [res, ts], res "ok" or "panic"
\* (bam.Avail panics on an address BAM.Entry rejects)
RECURSIVE NABLoop(_, _, _, _, _)
NABLoop(m, stagger, max, i, ts) ==
    IF i > max THEN [res |-> "ok", ts |-> ZeroTS]
    ELSE LET av == Avail(m, ts) IN
         IF av = "panic" THEN [res |-> "panic", ts |-> ts]
         ELSE IF av = "true" THEN [res |-> "ok", ts |-> ts]
         ELSE LET s1 == Byte(ts.S + stagger)
                  s2 == IF s1 > max THEN Byte(1 + (s1 % max)) ELSE s1
              IN  NABLoop(m, stagger, max, i + 1, TS(ts.T, s2))

\* Allocator.nextAvailBlock; sectorCount panics on a track outside the
\* geometry table
nextAvailBlock(m, a, ts) ==
    IF ~Lookup(ts.T).ok THEN [res |-> "panic", ts |-> ts]
    ELSE NABLoop(m, a.SectorStagger, Byte(sectorCount(ts.T) + 255), 0, ts)

\* Allocator.nextTS: [res, ts]
RECURSIVE nextTS(_, _, _)
nextTS(m, a, iter) ==
    IF iter.T = 0 THEN [res |-> "ok", ts |-> ZeroTS]
    ELSE Bind(nextAvailBlock(m, a, iter), LAMBDA n :
         IF n.res = "panic" THEN n
         ELSE IF n.ts.T > 0 THEN n
         ELSE Bind(NextTrack(a.NextTrack, iter.T), LAMBDA t :
              IF t = 0 THEN [res |-> "ok", ts |-> ZeroTS]
              ELSE nextTS(m, a, TS(t, 0))))

\* Allocator.Alloc as it would be if the call that finds no candidate
\* reported DiskFull itself
AllocatorAllocFullAtOnce(m, a) ==
    IF a.TS.T = 0 THEN [res |-> "DiskFull", ts |-> ZeroTS, a |-> a, map |-> m]
    ELSE
    Bind(Avail(m, a.TS), LAMBDA av :
    Bind(IF av = "false" THEN nextTS(m, a, a.TS) ELSE [res |-> "ok", ts |-> a.TS],
         LAMBDA n :
        IF av = "panic" \/ n.res = "panic"
        THEN [res |-> "panic", ts |-> ZeroTS, a |-> a, map |-> m]
        ELSE IF n.ts.T = 0
        THEN [res |-> "DiskFull", ts |-> n.ts, a |-> [a EXCEPT !.TS = n.ts], map |-> m]
        ELSE Bind(BAMAlloc(m, n.ts), LAMBDA r :
             IF r.res # "nil"
             THEN [res |-> r.res, ts |-> ZeroTS, a |-> a, map |-> m]
             ELSE Bind(nextTS(r.map, a, n.ts), LAMBDA look :
                  IF look.res = "panic"
                  THEN [res |-> "panic", ts |-> ZeroTS, a |-> a, map |-> r.map]
                  ELSE [res |-> "nil", ts |-> n.ts,
                        a |-> [a EXCEPT !.TS = look.ts], map |-> r.map]))))

\* Allocator.Alloc: [res, ts, a, map]; res is "nil", an error or "panic",
\* ts the address returned, a the allocator and map the BAM afterwards
AllocatorAlloc(m, a) ==
    IF a.TS.T = 0 THEN [res |-> "DiskFull", ts |-> ZeroTS, a |-> a, map |-> m]
    ELSE
    Bind(Avail(m, a.TS), LAMBDA av :
    Bind(IF av = "false" THEN nextTS(m, a, a.TS) ELSE [res |-> "ok", ts |-> a.TS],
         LAMBDA n :
        IF av = "panic" \/ n.res = "panic"
        THEN [res |-> "panic", ts |-> ZeroTS, a |-> a, map |-> m]
        ELSE IF n.ts.T = 0
        THEN [res |-> "nil", ts |-> n.ts, a |-> [a EXCEPT !.TS = n.ts], map |-> m]
        ELSE Bind(BAMAlloc(m, n.ts), LAMBDA r :
             IF r.res # "nil"
             THEN [res |-> r.res, ts |-> ZeroTS, a |-> a, map |-> m]
             ELSE Bind(nextTS(r.map, a, n.ts), LAMBDA look :
                  IF look.res = "panic"
                  THEN [res |-> "panic", ts |-> ZeroTS, a |-> a, map |-> r.map]
                  ELSE [res |-> "nil", ts |-> n.ts,
                        a |-> [a EXCEPT !.TS = look.ts], map |-> r.map]))))

----------------------------------------------------------------------------
(* SpecTrack: the default cross-track policy applied again and again *)

\* The longest walk followed
MaxWalk == 40

Last(w) == w[Len(w)]

\* The walk starts at any track number a byte can hold
InitTrack ==
    /\ ZeroImage
    /\ allocs = NoBlocks /\ last = NoCall /\ prev = NoCall
    /\ buf = << >> /\ fh = NoFiles /\ out = << >>
    /\ \E t \in 0..255 : walk = <<t>>

\* next.T = a.NextTrack(iter.T), as Allocator.nextTS asks until it gets 0
StepTrack ==
    /\ Len(walk) < MaxWalk
    /\ Last(walk) # 0
    /\ walk' = Append(walk, defaultNextTrack(Last(walk)))
    /\ UNCHANGED <<pc, bam, dirTS, diskName, dirs, blks, allocs, last, prev, file>>

SpecTrack == InitTrack /\ [][StepTrack]_vars

\* lo, lo+1, ..., hi and hi, hi-1, ..., lo as sequences
Up(lo, hi) == [i \in 1..(hi - lo + 1) |-> lo + i - 1]
Down(hi, lo) == [i \in 1..(hi - lo + 1) |-> hi - i + 1]

IsPrefix(w, full) == Len(w) <= Len(full) /\ w = SubSeq(full, 1, Len(w))

\* The walk from the allocator's initial track
FromInitialTrack == walk # << >> /\ walk[1] = NewAllocator.TS.T

\* C6 as claimed: from the allocator's initial track the policy yields the
\* tracks in ascending order up to track 40, then 17, 16, ..., 1, then 0,
\* and never track 18.
C6_WalkUpTo40 ==
    FromInitialTrack =>
        /\ IsPrefix(walk, Up(bamTrack + 1, 40) \o Down(bamTrack - 1, 1) \o <<0>>)
        /\ \A i \in 1..Len(walk) : walk[i] # bamTrack

\* C6 as amended: the ascending part ends at track 35, the last track of a
\* disk (totalTrackCount): 19, ..., 35, then 17, ..., 1, then 0; never 18.
C6_WalkUpTo35 ==
    FromInitialTrack =>
        /\ IsPrefix(walk, Up(bamTrack + 1, totalTrackCount)
                             \o Down(bamTrack - 1, 1) \o <<0>>)
        /\ \A i \in 1..Len(walk) : walk[i] # bamTrack

\* C6 witness: the walk from the initial track has come to its end
C6_Witness == FromInitialTrack /\ Last(walk) = 0 /\ Len(walk) > 30

----------------------------------------------------------------------------
(* SpecAlloc: one allocator on an initialised image, with BAM.Alloc calls  *)
(* from elsewhere that take the block the allocator looks ahead to         *)

OneAllocator(a) == [id \in {1} |-> a]

\* a := bam.NewAllocator()
DoNewAllocator ==
    /\ pc = "ready"
    /\ allocs = NoBlocks
    /\ allocs' = OneAllocator(NewAllocator)
    /\ last' = Call("NewAllocator", NewAllocator.TS, "nil", 1)
    /\ prev' = last
    /\ UNCHANGED <<pc, bam, dirTS, diskName, dirs, blks, walk, file>>

\* The allocator set up as at the start of Img.NewDirEntry
DoNewDirAllocator ==
    /\ pc = "ready"
    /\ allocs = NoBlocks
    /\ allocs' = OneAllocator(DirAllocator)
    /\ last' = Call("NewDirAllocator", DirAllocator.TS, "nil", 1)
    /\ prev' = last
    /\ UNCHANGED <<pc, bam, dirTS, diskName, dirs, blks, walk, file>>

\* a.Alloc()
DoAllocatorAlloc ==
    /\ pc = "ready"
    /\ \E id \in DOMAIN allocs :
         \E r \in {AllocatorAlloc(bam, allocs[id])} :
         /\ bam' = r.map
         /\ allocs' = [allocs EXCEPT ![id] = r.a]
         /\ pc' = IF r.res = "panic" THEN "panic" ELSE pc
         /\ last' = Call("AAlloc", r.ts, r.res, id)
    /\ prev' = last
    /\ UNCHANGED <<dirTS, diskName, dirs, blks, walk, file>>

\* bam.Alloc(ts) by another caller, ts being the address an allocator looks
\* ahead to
DoTakeLookahead ==
    /\ pc = "ready"
    /\ \E id \in DOMAIN allocs :
         LET ts == allocs[id].TS
             r == BAMAlloc(bam, ts)
         IN  /\ ts.T # 0
             /\ bam' = r.map
             /\ pc' = IF r.res = "panic" THEN "panic" ELSE pc
             /\ last' = Call("Alloc", ts, r.res, 0)
    /\ prev' = last
    /\ UNCHANGED <<dirTS, diskName, dirs, blks, allocs, walk, file>>

NextAlloc ==
    \/ DoImgInit
    \/ DoNewAllocator
    \/ DoNewDirAllocator
    \/ DoAllocatorAlloc
    \/ DoTakeLookahead

SpecAlloc == NewImage /\ [][NextAlloc]_vars

\* The call was a.Alloc(); the allocator's lookahead when the call began
IsAAlloc(c) == c.op = "AAlloc"
EntryTS(c) == c.before.allocs[c.arg].TS
GaveBlock(c) == IsAAlloc(c) /\ c.res = "nil" /\ c.ts.T # 0
GaveZero(c) == IsAAlloc(c) /\ c.res = "nil" /\ c.ts.T = 0

\* C7 as claimed: the Alloc call that first fails to find a block (the call
\* after one that returned a block) returns the zero address with no error,
\* the call after it returns DiskFull, and the call that discovers
\* exhaustion does not return DiskFull itself.
C7_ZeroThenDiskFull ==
    /\ (/\ GaveBlock(prev) /\ IsAAlloc(last)
        /\ last.res \in {"nil", "DiskFull"} /\ last.ts.T = 0) => last.res = "nil"
    /\ (GaveZero(prev) /\ IsAAlloc(last)) => last.res = "DiskFull"
    /\ (IsAAlloc(last) /\ last.res = "DiskFull") => EntryTS(last).T = 0

\* C7 as amended: Alloc returns DiskFull exactly when its lookahead was the
\* zero address when the call began, and leaves it so; the call that makes
\* the lookahead zero is either one that returns the zero address with no
\* error (its lookahead block was taken and no other candidate found: BAM
\* unchanged) or one that returns the block it allocated.
C7_DiskFullFromNextCall ==
    IsAAlloc(last) =>
        /\ (last.res = "DiskFull") <=> (EntryTS(last).T = 0)
        /\ last.res = "DiskFull" =>
              (allocs[last.arg].TS.T = 0 /\ bam = last.before.bam)
        /\ GaveZero(last) =>
              /\ Avail(last.before.bam, EntryTS(last)) = "false"
              /\ allocs[last.arg].TS.T = 0
              /\ bam = last.before.bam
        /\ (EntryTS(last).T # 0 /\ allocs[last.arg].TS.T = 0) =>
              (GaveZero(last) \/ GaveBlock(last))
        /\ (GaveZero(prev) /\ prev.arg = last.arg) => last.res = "DiskFull"

\* C7 witness: a call returned the zero address with no error and the next
\* call returned DiskFull
C7_Witness == GaveZero(prev) /\ IsAAlloc(last) /\ last.res = "DiskFull"

----------------------------------------------------------------------------
(* Img.NewDirEntry *)

\* Blocks on the disk: a walk through more blocks than this has come back
\* to a block it has seen
totalBlockCount == 683

\* The loop of Img.NewDirEntry at directory block cur, with BAM m, directory
\* blocks d and allocator a: [res, blk, slot, map, dirs].  res is "nil" (the
\* entry is slot `slot`, 1-based, of block blk), an error, "panic", or "hang"
\* (the chain is a cycle of full blocks and the loop does not end).
RECURSIVE NewDirEntryLoop(_, _, _, _, _)
NewDirEntryLoop(m, d, a, cur, fuel) ==
    LET dir == DirAt(d, cur)
        slot == NextAvail(dir)
        nx == DirNext(dir)
        fail(res) == [res |-> res, blk |-> ZeroTS, slot |-> 0, map |-> m, dirs |-> d]
    IN  IF slot # 0
        THEN [res |-> "nil", blk |-> cur, slot |-> slot, map |-> m, dirs |-> d]
        ELSE IF nx.ok
        THEN IF BlockOutcome(nx.ts) = "panic" THEN fail("panic")
             ELSE IF fuel = 0 THEN fail("hang")
             ELSE NewDirEntryLoop(m, d, a, nx.ts, fuel - 1)
        ELSE Bind(AllocatorAlloc(m, a), LAMBDA r :
             IF r.res = "DiskFull" THEN fail("no room left in directory track")
             ELSE IF r.res # "nil"
             THEN [res |-> r.res, blk |-> ZeroTS, slot |-> 0, map |-> r.map, dirs |-> d]
             ELSE Bind(PutDir(d, cur, SetNext(dir, r.ts)), LAMBDA d2 :
                  IF BlockOutcome(r.ts) = "panic"
                  THEN [res |-> "panic", blk |-> ZeroTS, slot |-> 0,
                        map |-> r.map, dirs |-> d2]
                  ELSE IF fuel = 0 THEN fail("hang")
                  ELSE NewDirEntryLoop(r.map, d2, r.a, r.ts, fuel - 1)))

\* Img.NewDirEntry on BAM m and directory blocks d
NewDirEntry(m, d) ==
    IF BlockOutcome(bamTrackTS) = "panic" \/ BlockOutcome(dirTS) = "panic"
    THEN [res |-> "panic", blk |-> ZeroTS, slot |-> 0, map |-> m, dirs |-> d]
    ELSE NewDirEntryLoop(m, d, DirAllocator, dirTS, totalBlockCount)

----------------------------------------------------------------------------
(* SpecDir: Img.NewDirEntry on an initialised image whose entries the      *)
(* caller fills in and scratches, and whose directory track other callers  *)
(* take sectors of                                                         *)

\* ent, err := d.NewDirEntry()
DoNewDirEntry ==
    /\ pc = "ready"
    /\ \E r \in {NewDirEntry(bam, dirs)} :
       /\ bam' = r.map
       /\ dirs' = r.dirs
       /\ pc' = IF r.res \in {"panic", "hang"} THEN "panic" ELSE pc
       /\ last' = Call("NewDirEntry", r.blk, r.res, r.slot)
    /\ prev' = last
    /\ UNCHANGED <<dirTS, diskName, blks, allocs, walk, file>>

SetFileType(d, blk, slot, type) ==
    PutDir(d, blk, [DirAt(d, blk) EXCEPT !.Files[slot].FileType = type])

\* ent.FileType = disk.PRG on the entry NewDirEntry has just returned
DoUseEntry ==
    /\ pc = "ready"
    /\ last.op = "NewDirEntry"
    /\ last.res = "nil"
    /\ dirs' = SetFileType(dirs, last.ts, last.arg, PRG)
    /\ last' = Call("UseEntry", last.ts, "nil", last.arg)
    /\ prev' = last
    /\ UNCHANGED <<pc, bam, dirTS, diskName, blks, allocs, walk, file>>

\* The slots (1-based) whose entries the caller scratches
ScratchSlots == {2}

\* ent.FileType = disk.Scratched on an entry in use
DoScratchEntry ==
    /\ pc = "ready"
    /\ \E blk \in DOMAIN dirs, slot \in ScratchSlots :
         /\ dirs[blk].Files[slot].FileType # Scratched
         /\ dirs' = SetFileType(dirs, blk, slot, Scratched)
         /\ last' = Call("ScratchEntry", blk, "nil", slot)
    /\ prev' = last
    /\ UNCHANGED <<pc, bam, dirTS, diskName, blks, allocs, walk, file>>

\* The sectors of a track that exist, and those the BAM has available
RealSectors(t) == 0 .. (sectorCount(t) - 1)
AvailSectors(m, t) == {s \in RealSectors(t) : Avail(m, TS(t, s)) = "true"}

\* bam.Alloc(ts) by another caller, ts the lowest available sector of the
\* directory track
DoTakeDirSector ==
    /\ pc = "ready"
    /\ \E s \in AvailSectors(bam, bamTrack) :
         /\ \A s2 \in AvailSectors(bam, bamTrack) : s <= s2
         /\ LET r == BAMAlloc(bam, TS(bamTrack, s)) IN
            /\ bam' = r.map
            /\ last' = Call("Alloc", TS(bamTrack, s), r.res, 0)
    /\ prev' = last
    /\ UNCHANGED <<pc, dirTS, diskName, dirs, blks, allocs, walk, file>>

NextDir ==
    \/ DoImgInit
    \/ DoNewDirEntry
    \/ DoUseEntry
    \/ DoScratchEntry
    \/ DoTakeDirSector

SpecDir == NewImage /\ [][NextDir]_vars

\* The directory chain of directory blocks d from block cur: the addresses
\* of its blocks in order, ending where the link is the terminator or is no
\* valid address, or where it comes back to a block of the chain.
RECURSIVE Chain(_, _, _)
Chain(d, cur, seen) ==
    LET nx == DirNext(DirAt(d, cur)) IN
    IF nx.ok /\ IsValid(nx.ts) /\ nx.ts \notin seen \cup {cur}
    THEN <<cur>> \o Chain(d, nx.ts, seen \cup {cur})
    ELSE <<cur>>

\* The first Scratched entry of the chain c, as <<block, slot>>; << >> if
\* every entry of every block is in use
RECURSIVE FirstScratched(_, _)
FirstScratched(d, c) ==
    IF c = << >> THEN << >>
    ELSE IF NextAvail(DirAt(d, Head(c))) # 0
    THEN <<Head(c), NextAvail(DirAt(d, Head(c)))>>
    ELSE FirstScratched(d, Tail(c))

\* The chain and its first Scratched entry in the state a call began in
ChainBefore(c) == Chain(c.before.dirs, dirTS, {})
ScratchedBefore(c) == FirstScratched(c.before.dirs, ChainBefore(c))

\* C8: NewDirEntry returns the first Scratched entry in chain order and then
\* leaves the image unchanged; when every entry of the chain is in use (and
\* the directory track has a sector available) it allocates exactly one new
\* block on track 18, marks it allocated, links it from the last block of
\* the chain and returns slot 0 of the new block.
C8_NewDirEntry ==
    last.op = "NewDirEntry" =>
        LET c == ChainBefore(last)
            f == ScratchedBefore(last)
            m0 == last.before.bam
            d0 == last.before.dirs
            tail == c[Len(c)]
        IN  IF f # << >>
            THEN /\ last.res = "nil"
                 /\ <<last.ts, last.arg>> = f
                 /\ bam = m0
                 /\ dirs = d0
            ELSE AvailSectors(m0, bamTrack) # {} =>
                 /\ last.res = "nil"
                 /\ last.ts.T = bamTrack
                 /\ last.arg = 1
                 /\ Avail(m0, last.ts) = "true"
                 /\ bam = BAMAlloc(m0, last.ts).map
                 /\ dirs = PutDir(d0, tail, SetNext(DirAt(d0, tail), last.ts))

\* C9: when every entry of the chain is in use and no sector of track 18 is
\* available, NewDirEntry returns an error, without aborting and without an
\* entry, and leaves the BAM and every directory link unchanged.
C9_DirTrackExhausted ==
    (/\ last.op = "NewDirEntry"
     /\ ScratchedBefore(last) = << >>
     /\ AvailSectors(last.before.bam, bamTrack) = {})
        => /\ last.res \notin {"nil", "panic", "hang"}
           /\ bam = last.before.bam
           /\ dirs = last.before.dirs

\* The chain from block cur is well formed: every link is a valid, allocated
\* block on track 18 not met before, and the last link is the terminator.
RECURSIVE ChainWellFormed(_, _, _, _)
ChainWellFormed(m, d, cur, seen) ==
    LET link == DirAt(d, cur).Files[1].DirLink IN
    IF link = DirEnd THEN TRUE
    ELSE /\ IsValid(link)
         /\ link.T = bamTrack
         /\ Avail(m, link) = "false"
         /\ link \notin seen \cup {cur}
         /\ ChainWellFormed(m, d, link, seen \cup {cur})

\* C10: after Img.Init and any sequence of NewDirEntry calls, each returned
\* entry marked in use before the next call, the directory chain from the
\* root is finite and acyclic, every link is a valid allocated block on
\* track 18, and the last block's link is the terminator {0,255}.
C10_ChainWellFormed ==
    (pc = "ready" /\ last.op \in {"Init", "NewDirEntry", "UseEntry"})
        => ChainWellFormed(bam, dirs, dirTS, {})

----------------------------------------------------------------------------
(* File blocks.  A block is kept as a RawBlock [Link, Data]; a PrgBlock is  *)
(* the same 256 bytes with LoadLo, LoadHi = Data[1], Data[2] and its own    *)
(* Data = Data[3..254].  File blocks are kept apart from the directory      *)
(* blocks of track 18: the default allocator never yields track 18.         *)

dataSize == 254
prgDataSize == 252

ZeroRawBlock == [Link |-> ZeroTS, Data |-> [i \in 1..dataSize |-> 0]]

\* The file block at ts: as written, or still zero
RawAt(b, ts) == IF ts \in DOMAIN b THEN b[ts] ELSE ZeroRawBlock

PutRaw(b, ts, blk) == [x \in (DOMAIN b) \cup {ts} |-> IF x = ts THEN blk ELSE b[x]]

\* copy(dst, src) into the bytes of dst from 1-based position at on
CopyAt(dst, at, src) ==
    [i \in 1..Len(dst) |->
        IF i >= at /\ i < at + Len(src) THEN src[i - at + 1] ELSE dst[i]]

\* RawBlock.EOF
RawEOF(blk) == blk.Link.T = 0

\* RawBlock.Len
RawLen(blk) == IF RawEOF(blk) THEN blk.Link.S ELSE dataSize

\* RawBlock.Bytes: [res, bytes]; Data[:n] with n > 254 panics
RawBytes(blk) ==
    IF RawEOF(blk)
    THEN IF RawLen(blk) > dataSize THEN [res |-> "panic", bytes |-> << >>]
         ELSE [res |-> "ok", bytes |-> SubSeq(blk.Data, 1, RawLen(blk))]
    ELSE [res |-> "ok", bytes |-> blk.Data]

\* PrgBlock.Len
PrgLen(blk) == dataSize

\* PrgBlock.Bytes
PrgBytes(blk) == RawBytes(blk)

\* A FileBlock value: the block's type and address
FB(kind, ts) == [kind |-> kind, ts |-> ts]
NilFB == FB("nil", ZeroTS)

\* FileBlock.Len and FileBlock.Bytes
FBLen(b, fb) == IF fb.kind = "prg" THEN PrgLen(RawAt(b, fb.ts)) ELSE RawLen(RawAt(b, fb.ts))
FBBytes(b, fb) == IF fb.kind = "prg" THEN PrgBytes(RawAt(b, fb.ts)) ELSE RawBytes(RawAt(b, fb.ts))

\* RawBlock.NextBlock and PrgBlock.NextBlock: [res, fb]
NextBlock(b, fb) ==
    LET link == RawAt(b, fb.ts).Link IN
    IF link.T = 0 THEN [res |-> "ok", fb |-> NilFB]
    ELSE IF BlockOutcome(link) = "panic" THEN [res |-> "panic", fb |-> NilFB]
    ELSE [res |-> "ok", fb |-> FB("raw", link)]

\* DirEntry.FileBlock: [res, fb]
FileBlock(ent) ==
    IF BlockOutcome(ent.FileTS) = "panic" THEN [res |-> "panic", fb |-> NilFB]
    ELSE IF ent.FileType \in {DEL, SEQ} THEN [res |-> "ok", fb |-> FB("raw", ent.FileTS)]
    ELSE IF ent.FileType = PRG THEN [res |-> "ok", fb |-> FB("prg", ent.FileTS)]
    ELSE [res |-> "panic", fb |-> NilFB]

----------------------------------------------------------------------------
(* Writing a program file: createFile, writeProgram, writeRawBlocks *)

\* Drop the first n elements
Drop(q, n) == SubSeq(q, n + 1, Len(q))

\* The loop of writeRawBlocks: cur is the block being linked, data the bytes
\* still to write from 0-based position i: [res, blks, map, a].  The error
\* of a.Alloc() is not looked at, only the address.
RECURSIVE WriteRawLoop(_, _, _, _, _, _)
WriteRawLoop(b, m, a, cur, data, i) ==
    Bind(AllocatorAlloc(m, a), LAMBDA r :
    IF r.res = "panic" THEN [res |-> "panic", blks |-> b, map |-> r.map, a |-> r.a]
    ELSE IF r.ts.T = 0 THEN [res |-> "disk full", blks |-> b, map |-> r.map, a |-> r.a]
    ELSE Bind(PutRaw(b, cur, [RawAt(b, cur) EXCEPT !.Link = r.ts]), LAMBDA b1 :
         IF BlockOutcome(r.ts) = "panic"
         THEN [res |-> "panic", blks |-> b1, map |-> r.map, a |-> r.a]
         ELSE IF Len(data) - i <= dataSize
         THEN LET chunk == Drop(data, i)
                  tail == RawAt(b1, r.ts)
              IN  [res |-> "nil",
                   blks |-> PutRaw(b1, r.ts,
                              [Link |-> TS(0, Byte(Len(chunk))),
                               Data |-> CopyAt(tail.Data, 1, chunk)]),
                   map |-> r.map, a |-> r.a]
         ELSE LET chunk == SubSeq(data, i + 1, i + dataSize)
                  blk == RawAt(b1, r.ts)
              IN  WriteRawLoop(PutRaw(b1, r.ts, [blk EXCEPT !.Data = CopyAt(blk.Data, 1, chunk)]),
                               r.map, r.a, r.ts, data, i + dataSize)))

\* writeRawBlocks
writeRawBlocks(b, m, a, cur, data) ==
    IF Len(data) = 0 THEN [res |-> "nil", blks |-> b, map |-> m, a |-> a]
    ELSE WriteRawLoop(b, m, a, cur, data, 0)

\* writeProgram as it would be if it did not end the chain in a file of one
\* block
writeProgramKeepsLink(b, m, a, ts, input) ==
    IF BlockOutcome(ts) = "panic" \/ Len(input) < 2
    THEN [res |-> "panic", blks |-> b, map |-> m, a |-> a]
    ELSE LET prg == RawAt(b, ts)
             withLoad == CopyAt(prg.Data, 1, SubSeq(input, 1, 2))
             rest == Drop(input, 2)
         IN  IF Len(rest) <= prgDataSize
             THEN [res |-> "nil",
                   blks |-> PutRaw(b, ts, [Link |-> prg.Link,
                                           Data |-> CopyAt(withLoad, 3, rest)]),
                   map |-> m, a |-> a]
             ELSE writeRawBlocks(
                      PutRaw(b, ts, [prg EXCEPT !.Data =
                                       CopyAt(withLoad, 3, SubSeq(rest, 1, prgDataSize))]),
                      m, a, ts, Drop(rest, prgDataSize))

\* writeProgram: [res, blks, map, a].  buf[:2] and buf[2:] panic on an input
\* shorter than two bytes.
writeProgram(b, m, a, ts, input) ==
    IF BlockOutcome(ts) = "panic" \/ Len(input) < 2
    THEN [res |-> "panic", blks |-> b, map |-> m, a |-> a]
    ELSE LET prg == RawAt(b, ts)
             withLoad == CopyAt(prg.Data, 1, SubSeq(input, 1, 2))
             rest == Drop(input, 2)
         IN  IF Len(rest) <= prgDataSize
             THEN [res |-> "nil",
                   blks |-> PutRaw(b, ts, [Link |-> TS(0, Byte(Len(rest))),
                                           Data |-> CopyAt(withLoad, 3, rest)]),
                   map |-> m, a |-> a]
             ELSE writeRawBlocks(
                      PutRaw(b, ts, [prg EXCEPT !.Data =
                                       CopyAt(withLoad, 3, SubSeq(rest, 1, prgDataSize))]),
                      m, a, ts, Drop(rest, prgDataSize))

\* DirEntry.SetByteLen with DirEntry.SetBlockCount: the two size bytes
SetByteLen(ent, size) ==
    LET n == (size \div blockSize) + (IF size % blockSize > 0 THEN 1 ELSE 0)
        n16 == n % 65536
    IN  [ent EXCEPT !.BlockSizeLo = n16 % 256, !.BlockSizeHi = (n16 \div 256) % 256]

\* strings.ToUpper on ASCII bytes
ToUpper(str) == [i \in 1..Len(str) |-> IF str[i] \in 97..122 THEN str[i] - 32 ELSE str[i]]

\* createFile: [res, map, dirs, blks].  res "fatal" is log.Fatal, the
\* process exits.
createFile(name, input) ==
    LET fname == ToUpper(name)
        stop(res) == [res |-> res, map |-> bam, dirs |-> dirs, blks |-> blks]
    IN  Bind(AllocatorAlloc(bam, NewAllocator), LAMBDA r1 :
        IF r1.res = "panic" THEN stop("panic")
        ELSE IF r1.ts.T = 0 THEN stop("fatal")
        ELSE Bind(NewDirEntry(r1.map, dirs), LAMBDA e :
             IF e.res \in {"panic", "hang"} THEN stop("panic")
             ELSE IF e.res # "nil" THEN stop("fatal")
             ELSE IF Len(fname) > 16 THEN stop("panic")
             ELSE LET old == DirAt(e.dirs, e.blk).Files[e.slot]
                      ent == [SetByteLen(old, Len(input)) EXCEPT
                                 !.Filename = PadString(fname, 16),
                                 !.FileType = PRG,
                                 !.FileTS = r1.ts]
                      d2 == PutDir(e.dirs, e.blk,
                                   [DirAt(e.dirs, e.blk) EXCEPT !.Files[e.slot] = ent])
                  IN  Bind(writeProgram(blks, e.map, r1.a, r1.ts, input), LAMBDA w :
                      [res |-> IF w.res = "nil" THEN "nil"
                               ELSE IF w.res = "panic" THEN "panic" ELSE "fatal",
                       map |-> w.map, dirs |-> d2, blks |-> w.blks])))

----------------------------------------------------------------------------
(* The file system view: loadDirEntries, Name, Size, Read, ReadDir *)

\* The extension Name() gives a file type, as ASCII bytes
Ext(type) ==
    IF type = DEL THEN <<68, 69, 76>>
    ELSE IF type = SEQ THEN <<83, 69, 81>>
    ELSE IF type = PRG THEN <<80, 82, 71>>
    ELSE IF type = USR THEN <<85, 83, 82>>
    ELSE IF type = REL THEN <<82, 69, 76>>
    ELSE <<63, 63, 63>>

\* dirEntryFile.Name of a directory entry: name, ".", extension
Name(ent) == UnpadBytes(ent.Filename) \o <<46>> \o Ext(ent.FileType)

\* The loop of dirEntryFile.Size from block fb on: [res, n]
RECURSIVE SizeLoop(_, _, _)
SizeLoop(b, fb, fuel) ==
    IF fb.kind = "nil" THEN [res |-> "ok", n |-> 0]
    ELSE IF fuel = 0 THEN [res |-> "hang", n |-> 0]
    ELSE LET nb == NextBlock(b, fb) IN
         IF nb.res = "panic" THEN [res |-> "panic", n |-> 0]
         ELSE Bind(SizeLoop(b, nb.fb, fuel - 1), LAMBDA r :
              [res |-> r.res, n |-> FBLen(b, fb) + r.n])

\* dirEntryFile.Size of the file of entry ent
Size(b, ent) ==
    LET first == FileBlock(ent) IN
    IF first.res = "panic" THEN [res |-> "panic", n |-> 0]
    ELSE SizeLoop(b, first.fb, totalBlockCount)

\* newDirEntryFile for the entry in slot of directory block blk
newDirEntryFile(d, blk, slot) ==
    [blk |-> blk, slot |-> slot,
     iter |-> FileBlock(DirAt(d, blk).Files[slot]).fb, offset |-> 0]

\* The entries of one directory block put into files, slot by slot:
\* [res, files]
RECURSIVE LoadBlock(_, _, _, _)
LoadBlock(d, blk, slot, files) ==
    IF slot > 8 THEN [res |-> "ok", files |-> files]
    ELSE LET ent == DirAt(d, blk).Files[slot] IN
         IF ent.FileType = Scratched THEN LoadBlock(d, blk, slot + 1, files)
         ELSE IF FileBlock(ent).res = "panic" THEN [res |-> "panic", files |-> files]
         ELSE LoadBlock(d, blk, slot + 1,
                        [x \in (DOMAIN files) \cup {Name(ent)} |->
                            IF x = Name(ent) THEN newDirEntryFile(d, blk, slot)
                            ELSE files[x]])

\* loadDirEntries from directory block cur on: [res, files]
RECURSIVE LoadDirLoop(_, _, _, _)
LoadDirLoop(d, cur, files, fuel) ==
    LET nx == DirNext(DirAt(d, cur)) IN
    Bind(LoadBlock(d, cur, 1, files), LAMBDA r :
        IF r.res = "panic" THEN r
        ELSE IF ~nx.ok THEN r
        ELSE IF BlockOutcome(nx.ts) = "panic" THEN [res |-> "panic", files |-> r.files]
        ELSE IF fuel = 0 THEN [res |-> "hang", files |-> r.files]
        ELSE LoadDirLoop(d, nx.ts, r.files, fuel - 1))

\* loadDirEntries
loadDirEntries(d) ==
    IF BlockOutcome(bamTrackTS) = "panic" \/ BlockOutcome(dirTS) = "panic"
    THEN [res |-> "panic", files |-> NoFiles]
    ELSE LoadDirLoop(d, dirTS, NoFiles, totalBlockCount)

\* a < b for strings, byte by byte
StrLess(a, b) ==
    \E i \in 1..Len(b) :
        /\ \A k \in 1..(i - 1) : k <= Len(a) /\ a[k] = b[k]
        /\ (i > Len(a) \/ (i <= Len(a) /\ a[i] < b[i]))

\* The names in names, in ascending order
RECURSIVE SortNames(_)
SortNames(names) ==
    IF names = {} THEN << >>
    ELSE LET least == CHOOSE x \in names : \A y \in names \ {x} : StrLess(x, y)
         IN  <<least>> \o SortNames(names \ {least})

\* diskFS.ReadDir(name): [err, entries], an entry being the Name and the
\* Size of a file
ReadDir(name) ==
    IF name # UnpadBytes(diskName) THEN [err |-> "ErrNotExist", entries |-> << >>]
    ELSE LET sorted == SortNames(DOMAIN fh) IN
         [err |-> "nil",
          entries |-> [i \in 1..Len(sorted) |->
                         LET f == fh[sorted[i]]
                             ent == DirAt(dirs, f.blk).Files[f.slot]
                         IN  [name |-> Name(ent), size |-> Size(blks, ent)]]]

Min(a, b) == IF a < b THEN a ELSE b

\* dirEntryFile.Read into a buffer of n bytes, read of them filled with acc:
\* [res, f, bytes]
RECURSIVE ReadLoop(_, _, _, _, _)
ReadLoop(b, f, n, read, acc) ==
    IF read >= n THEN [res |-> "nil", f |-> f, bytes |-> acc]
    ELSE LET blk == FBBytes(b, f.iter) IN
         IF blk.res = "panic" \/ f.offset > Len(blk.bytes)
         THEN [res |-> "panic", f |-> f, bytes |-> acc]
         ELSE IF Len(blk.bytes) = 0 THEN [res |-> "EOF", f |-> f, bytes |-> acc]
         ELSE LET cnt == Min(n - read, Len(blk.bytes) - f.offset)
                  got == acc \o SubSeq(blk.bytes, f.offset + 1, f.offset + cnt)
                  nb == NextBlock(b, f.iter)
              IN  IF cnt < Len(blk.bytes)
                  THEN [res |-> "nil", f |-> [f EXCEPT !.offset = cnt], bytes |-> got]
                  ELSE IF nb.res = "panic"
                  THEN [res |-> "panic", f |-> [f EXCEPT !.offset = 0], bytes |-> got]
                  ELSE IF nb.fb.kind = "nil"
                  THEN [res |-> "EOF", f |-> [f EXCEPT !.offset = 0], bytes |-> got]
                  ELSE ReadLoop(b, [f EXCEPT !.offset = 0, !.iter = nb.fb],
                                n, read + cnt, got)

\* dirEntryFile.Read
Read(b, f, n) == ReadLoop(b, f, n, 0, << >>)

----------------------------------------------------------------------------
(* Writing one program file to a fresh image and reading it back *)

\* The lengths of the input files
InputLens == {0, 1, 2, 3, 251, 252, 253, 254, 255, 256, 506, 508, 509, 1280}

\* An input file of n bytes, no byte zero and no two equal bytes less than
\* 255 positions apart
InputBytes(n) == [i \in 1..n |-> (i % 255) + 1]

\* The file names: "foo" and "PROGRAM-OF-16-CH"
FileNames ==
    { <<102, 111, 111>>,
      <<80, 82, 79, 71, 82, 65, 77, 45, 79, 70, 45, 49, 54, 45, 67, 72>> }

\* The sizes of the buffers given to Read: one block and two blocks
ReadSizes == {dataSize, 2 * dataSize}

\* createFile(fname, buf, d) on an image that holds no file yet
DoCreateFile ==
    /\ pc = "ready"
    /\ last.op \in {"Init", "FS"}
    /\ blks = NoBlocks /\ buf = << >>
    /\ \E fname \in FileNames, n \in InputLens :
         \E r \in {createFile(fname, InputBytes(n))} :
         /\ buf' = InputBytes(n)
         /\ bam' = r.map
         /\ dirs' = r.dirs
         /\ blks' = r.blks
         /\ pc' = IF r.res = "nil" THEN pc ELSE IF r.res = "fatal" THEN "exit" ELSE "panic"
         /\ last' = Call("CreateFile", ZeroTS, r.res, fname)
    /\ prev' = last
    /\ UNCHANGED <<dirTS, diskName, allocs, walk, fh, out>>

\* d.FS()
DoFS ==
    /\ pc = "ready"
    /\ last.op \in {"Init", "CreateFile", "SetEntry"}
    /\ \E r \in {loadDirEntries(dirs)} :
       /\ fh' = r.files
       /\ pc' = IF r.res = "ok" THEN pc ELSE "panic"
       /\ last' = Call("FS", ZeroTS, r.res, Cardinality(DOMAIN r.files))
    /\ prev' = last
    /\ UNCHANGED <<bam, dirTS, diskName, dirs, blks, allocs, walk, buf, out>>

\* One Read on a file of the diskFS, until the first io.EOF
DoRead ==
    /\ pc = "ready"
    /\ ~(last.op = "Read" /\ last.res = "EOF")
    /\ \E name \in DOMAIN fh, n \in ReadSizes :
         \E r \in {Read(blks, fh[name], n)} :
         /\ fh' = [fh EXCEPT ![name] = r.f]
         /\ out' = out \o r.bytes
         /\ pc' = IF r.res = "panic" THEN "panic" ELSE pc
         /\ last' = Call("Read", r.f.iter.ts, r.res, Len(r.bytes))
    /\ prev' = last
    /\ UNCHANGED <<bam, dirTS, diskName, dirs, blks, allocs, walk, buf>>

NextFile == DoImgInit \/ DoCreateFile \/ DoFS \/ DoRead

SpecFile == NewImage /\ [][NextFile]_vars

\* C4: a program file written to a fresh image by writeProgram and
\* writeRawBlocks is written without failure, whatever its length, and the
\* bytes the Read calls return up to io.EOF are exactly the input bytes.
C4_RoundTrip ==
    /\ last.op = "CreateFile" => last.res = "nil"
    /\ (last.op = "Read" /\ last.res = "EOF") => out = buf

\* C5: after Init and one createFile, the listing of the disk-name directory
\* of FS() has exactly one entry, named the upper-case file name followed by
\* ".PRG", and its Size() is the length of the input.
C5_ListingOfOneFile ==
    (last.op = "FS" /\ prev.op = "CreateFile") =>
        LET l == ReadDir(UnpadBytes(diskName)) IN
        /\ l.err = "nil"
        /\ Len(l.entries) = 1
        /\ l.entries[1].name = ToUpper(prev.arg) \o <<46, 80, 82, 71>>
        /\ l.entries[1].size = [res |-> "ok", n |-> Len(buf)]

----------------------------------------------------------------------------
(* SpecGeom: TS.Offset, TS.IsValid and Img.Block applied to every address  *)
(* two bytes can hold                                                      *)

\* The values of a uint8
Uint8 == 0..255

\* off, err := ts.Offset()
DoOffset ==
    /\ last = NoCall
    /\ \E t \in Uint8, s \in Uint8 :
         last' = Call("Offset", TS(t, s),
                      IF Offset(TS(t, s)).ok THEN "nil" ELSE "BadTS",
                      Offset(TS(t, s)).off)
    /\ prev' = last
    /\ UNCHANGED <<pc, bam, dirTS, diskName, dirs, blks, allocs, walk, file>>

\* ts.IsValid()
DoIsValid ==
    /\ last = NoCall
    /\ \E t \in Uint8, s \in Uint8 :
         last' = Call("IsValid", TS(t, s),
                      IF IsValid(TS(t, s)) THEN "true" ELSE "false", 0)
    /\ prev' = last
    /\ UNCHANGED <<pc, bam, dirTS, diskName, dirs, blks, allocs, walk, file>>

\* d.Block(ts)
DoBlock ==
    /\ last = NoCall
    /\ \E t \in Uint8, s \in Uint8 :
         /\ last' = Call("Block", TS(t, s), BlockResult(TS(t, s)), Offset(TS(t, s)).off)
         /\ pc' = IF BlockResult(TS(t, s)) = "ok" THEN pc ELSE "panic"
    /\ prev' = last
    /\ UNCHANGED <<bam, dirTS, diskName, dirs, blks, allocs, walk, file>>

NextGeom == DoOffset \/ DoIsValid \/ DoBlock

SpecGeom == NewImage /\ [][NextGeom]_vars

\* The sectors of a track as the disk format has them
SectorsPerTrack(t) ==
    IF t \in 1..17 THEN 21
    ELSE IF t \in 18..24 THEN 19
    ELSE IF t \in 25..30 THEN 18
    ELSE IF t \in 31..40 THEN 17
    ELSE 0

\* The addresses of the format: track 1..40, sector below the track's count
InFormat(ts) == ts.T \in 1..40 /\ ts.S < SectorsPerTrack(ts.T)

\* The number of addresses of the format before ts, track by track and
\* sector by sector
BlocksBefore(ts) ==
    Cardinality({x \in (1..40) \X (0..20) :
                    /\ x[2] < SectorsPerTrack(x[1])
                    /\ (x[1] < ts.T \/ (x[1] = ts.T /\ x[2] < ts.S))})

\* The inverse zone search: the address of the block at offset off
FromOffset(off) ==
    LET blk == off \div blockSize
        k == CHOOSE z \in 1..Len(geometry) :
                 /\ geometry[z].sectorOffset <= blk
                 /\ \A z2 \in 1..Len(geometry) :
                        geometry[z2].sectorOffset <= blk
                            => geometry[z2].sectorOffset <= geometry[z].sectorOffset
        g == geometry[k]
    IN  TS(g.trackMin + ((blk - g.sectorOffset) \div g.sectorCount),
           (blk - g.sectorOffset) % g.sectorCount)

\* C11: Offset succeeds exactly on the addresses of the format, IsValid
\* gives the same verdict and Block panics with BadTS on every other
\* address; the offset of an address is 256 times the number of addresses
\* before it (so distinct addresses have distinct offsets), and the inverse
\* zone search gives the address back.
C11_OffsetOfValidAddresses ==
    /\ last.op = "Offset" =>
          /\ last.res = "nil" <=> InFormat(last.ts)
          /\ last.res = "nil" =>
                /\ last.arg = blockSize * BlocksBefore(last.ts)
                /\ FromOffset(last.arg) = last.ts
    /\ last.op = "IsValid" => (last.res = "true" <=> InFormat(last.ts))
    /\ last.op = "Block" => (last.res = "BadTS" <=> ~InFormat(last.ts))

C11_Witness ==
    /\ last.op = "Offset"
    /\ last.ts = TS(40, 16)
    /\ last.res = "nil"
    /\ last.arg = blockSize * 767

\* C12: the offsets of the valid addresses are exactly 0, 256, ..., 174592,
\* and Block returns a view for every address IsValid accepts.
C12_ValidAddressesInImage ==
    /\ (last.op = "Offset" /\ IsValid(last.ts)) =>
          /\ last.res = "nil"
          /\ last.arg + blockSize <= totalByteCount
    /\ (last.op = "Block" /\ IsValid(last.ts)) => last.res = "ok"

----------------------------------------------------------------------------
(* SpecRange: one BAM.Alloc or BAM.Free on the initialised image, with     *)
(* every address two bytes can hold                                        *)

\* bam.Alloc(ts) right after Init
DoAllocAny ==
    /\ pc = "ready"
    /\ last.op = "Init"
    /\ \E t \in Uint8, s \in Uint8 :
         \E r \in {BAMAlloc(bam, TS(t, s))} :
            /\ bam' = r.map
            /\ pc' = IF r.res = "panic" THEN "panic" ELSE pc
            /\ last' = Call("Alloc", TS(t, s), r.res, 0)
    /\ prev' = last
    /\ UNCHANGED <<dirTS, diskName, dirs, blks, allocs, walk, file>>

\* bam.Free(ts) right after Init
DoFreeAny ==
    /\ pc = "ready"
    /\ last.op = "Init"
    /\ \E t \in Uint8, s \in Uint8 :
         \E r \in {BAMFree(bam, TS(t, s))} :
            /\ bam' = r.map
            /\ pc' = IF r.res = "panic" THEN "panic" ELSE pc
            /\ last' = Call("Free", TS(t, s), r.res, 0)
    /\ prev' = last
    /\ UNCHANGED <<dirTS, diskName, dirs, blks, allocs, walk, file>>

NextRange == DoImgInit \/ DoAllocAny \/ DoFreeAny

SpecRange == NewImage /\ [][NextRange]_vars

\* C13: after a successful Init of the zeroed image every track's Count is
\* the sector count of its zone, track 18's less 2; the directory starts at
\* {18,1}; {18,0} and {18,1} are allocated; the root directory block's link
\* is the terminator {0,255} and its eight entries are Scratched.
C13_AfterInit ==
    (last.op = "Init" /\ last.res = "nil") =>
        /\ \A t \in 1..totalTrackCount :
              bam[t].Count = SectorsPerTrack(t) - (IF t = bamTrack THEN 2 ELSE 0)
        /\ dirTS = TS(18, 1)
        /\ Avail(bam, TS(18, 0)) = "false"
        /\ Avail(bam, TS(18, 1)) = "false"
        /\ DirAt(dirs, dirTS).Files[1].DirLink = TS(0, 255)
        /\ \A i \in 1..8 : DirAt(dirs, dirTS).Files[i].FileType = Scratched
        /\ DOMAIN dirs = {dirTS}

C13_Witness ==
    /\ last.op = "Init"
    /\ last.res = "nil"
    /\ bam[18].Count = 17
    /\ bam[1].Count = 21

\* C14: Alloc and Free of an address whose track is above 35 or whose
\* sector is 32 or more return OutOfRange and leave the BAM unchanged.
C14_OutOfRange ==
    (last.op \in {"Alloc", "Free"} /\ (last.ts.T > 35 \/ last.ts.S >= 32)) =>
        /\ last.res = "OutOfRange"
        /\ bam = last.before.bam

C14_Witness ==
    /\ last.op = "Alloc"
    /\ last.ts = TS(1, 32)
    /\ last.res = "OutOfRange"

----------------------------------------------------------------------------
(* SpecRead: reading a written file with buffers that are not a whole      *)
(* number of blocks                                                        *)

\* Read stops being called once it has returned this many bytes
MaxOut == 600

\* The sizes of the buffers: less than a block and more than a block
PartReadSizes == {100, 300}

\* One Read with a buffer of one of these sizes, until the first io.EOF
DoReadPart ==
    /\ pc = "ready"
    /\ ~(last.op = "Read" /\ last.res = "EOF")
    /\ Len(out) < MaxOut
    /\ \E name \in DOMAIN fh, n \in PartReadSizes :
         \E r \in {Read(blks, fh[name], n)} :
            /\ fh' = [fh EXCEPT ![name] = r.f]
            /\ out' = out \o r.bytes
            /\ pc' = IF r.res = "panic" THEN "panic" ELSE pc
            /\ last' = Call("Read", r.f.iter.ts, r.res, n)
    /\ prev' = last
    /\ UNCHANGED <<bam, dirTS, diskName, dirs, blks, allocs, walk, buf>>

NextRead == DoImgInit \/ DoCreateFile \/ DoFS \/ DoReadPart

SpecRead == NewImage /\ [][NextRead]_vars

\* The payloads (Bytes) of the blocks of a chain from block fb on, in order
RECURSIVE PayloadFrom(_, _, _)
PayloadFrom(b, fb, fuel) ==
    IF fb.kind = "nil" \/ fuel = 0 THEN << >>
    ELSE FBBytes(b, fb).bytes \o PayloadFrom(b, NextBlock(b, fb).fb, fuel - 1)

\* The payload of the file that f reads
PayloadOf(f) ==
    PayloadFrom(blks, FileBlock(DirAt(dirs, f.blk).Files[f.slot]).fb, totalBlockCount)

\* C15: whatever the sizes of the buffers, the bytes the Read calls on a
\* freshly opened file have returned so far are the first bytes of the
\* payloads of the file's chain, none repeated and none skipped, and when
\* Read returns io.EOF they are all of them.
C15_ReadReplaysChain ==
    last.op = "Read" =>
        \A name \in DOMAIN fh :
            /\ IsPrefix(out, PayloadOf(fh[name]))
            /\ last.res = "EOF" => out = PayloadOf(fh[name])

----------------------------------------------------------------------------
(* SpecList: the listing of an image whose directory entries have any file *)
(* type                                                                    *)

\* The directory holds at most this many entries
MaxEntries == 2

\* The file type bytes of the entries: the five types and an unknown one
TypeInputs == {DEL, SEQ, PRG, USR, REL, 133}

\* The file names of the entries: "A" and "B"
EntryNames == {<<65>>, <<66>>}

\* The first block of every entry's file, a block of track 17 still zero
EntryFileTS == TS(17, 0)

\* The entries in use of the directory chain c, as <<block, slot>>, in order
RECURSIVE InUse(_, _)
InUse(d, c) ==
    IF c = << >> THEN << >>
    ELSE SelectSeq([i \in 1..8 |-> <<Head(c), i>>],
                   LAMBDA x : DirAt(d, x[1]).Files[x[2]].FileType # Scratched)
         \o InUse(d, Tail(c))

\* ent, err := d.NewDirEntry(); ent.SetFilename(name); ent.FileType = type;
\* ent.FileTS = ts
DoSetEntry ==
    /\ pc = "ready"
    /\ last.op \in {"Init", "SetEntry"}
    /\ Len(InUse(dirs, Chain(dirs, dirTS, {}))) < MaxEntries
    /\ \E name \in EntryNames, type \in TypeInputs :
         \E e \in {NewDirEntry(bam, dirs)} :
            /\ e.res = "nil"
            /\ bam' = e.map
            /\ dirs' = PutDir(e.dirs, e.blk,
                              [DirAt(e.dirs, e.blk) EXCEPT
                                  !.Files[e.slot].Filename = PadString(name, 16),
                                  !.Files[e.slot].FileType = type,
                                  !.Files[e.slot].FileTS = EntryFileTS])
            /\ last' = Call("SetEntry", e.blk, "nil", e.slot)
    /\ prev' = last
    /\ UNCHANGED <<pc, dirTS, diskName, blks, allocs, walk, file>>

NextList == DoImgInit \/ DoSetEntry \/ DoFS

SpecList == NewImage /\ [][NextList]_vars

\* C16: FS() succeeds, and the listing of the disk-name directory has one
\* entry for each directory entry in use, named by its unpadded file name,
\* a dot and the code of its type ("???" for an unknown type).
C16_ListingOfEveryEntry ==
    last.op = "FS" =>
        LET used == InUse(dirs, Chain(dirs, dirTS, {}))
            l == ReadDir(UnpadBytes(diskName))
        IN  /\ last.res = "ok"
            /\ l.err = "nil"
            /\ Len(l.entries) = Len(used)
            /\ {l.entries[i].name : i \in 1..Len(l.entries)}
                  = {Name(DirAt(dirs, used[i][1]).Files[used[i][2]]) : i \in 1..Len(used)}

----------------------------------------------------------------------------
(* SpecScan: Allocator.nextAvailBlock on a track of each zone that has at  *)
(* most one sector available                                               *)

\* A track of each zone
ScanTracks == {1, 18, 25, 31}

\* bam.Alloc of the sectors in todo of track t, one after the other
RECURSIVE TakeSectors(_, _, _)
TakeSectors(m, t, todo) ==
    IF todo = {} THEN m
    ELSE LET s == CHOOSE x \in todo : \A y \in todo : x <= y
         IN  TakeSectors(BAMAlloc(m, TS(t, s)).map, t, todo \ {s})

\* bam.Alloc of every available sector of a track but those in keep
DoTakeAllBut ==
    /\ pc = "ready"
    /\ last.op = "Init"
    /\ \E t \in ScanTracks :
         \E keep \in {{}} \cup {{s} : s \in AvailSectors(bam, t)} :
            /\ bam' = TakeSectors(bam, t, AvailSectors(bam, t) \ keep)
            /\ last' = Call("TakeAllBut", TS(t, 0), "nil", keep)
    /\ prev' = last
    /\ UNCHANGED <<pc, dirTS, diskName, dirs, blks, allocs, walk, file>>

\* a.nextAvailBlock(ts) from a sector of the track, with either stagger
DoNextAvailBlock ==
    /\ pc = "ready"
    /\ last.op = "TakeAllBut"
    /\ \E s \in RealSectors(last.ts.T), stagger \in {SectorFileStagger, SectorDirStagger} :
         \E r \in {nextAvailBlock(bam, [NewAllocator EXCEPT !.SectorStagger = stagger],
                                  TS(last.ts.T, s))} :
            /\ pc' = IF r.res = "panic" THEN "panic" ELSE pc
            /\ last' = Call("nextAvailBlock", TS(last.ts.T, s), r.res,
                            [stagger |-> stagger, found |-> r.ts])
    /\ prev' = last
    /\ UNCHANGED <<bam, dirTS, diskName, dirs, blks, allocs, walk, file>>

NextScan == DoImgInit \/ DoTakeAllBut \/ DoNextAvailBlock

SpecScan == NewImage /\ [][NextScan]_vars

\* C17: nextAvailBlock returns the zero address only if no sector of the
\* track is available; the address it finds is an available sector of the
\* track, and sector 0 only if the scan started there.
C17_ScanCoversTrack ==
    last.op = "nextAvailBlock" =>
        LET found == last.arg.found IN
        /\ last.res = "ok"
        /\ found = ZeroTS => AvailSectors(bam, last.ts.T) = {}
        /\ found # ZeroTS =>
              /\ found.T = last.ts.T
              /\ found.S \in AvailSectors(bam, last.ts.T)
              /\ found.S = 0 => last.ts.S = 0

----------------------------------------------------------------------------
(* SpecBlock: Len and Bytes of a block seen as a RawBlock and as a         *)
(* PrgBlock, terminal with every byte count and not terminal               *)

\* The block the calls are made on, and the block it is linked to
BlockTS == TS(17, 0)
LinkedTS == TS(17, 10)

\* (*RawBlock)(d.Block(ts)).EndFile(size)
DoEndFile ==
    /\ pc = "ready"
    /\ last.op = "Init"
    /\ \E size \in 0..dataSize :
         /\ blks' = PutRaw(blks, BlockTS, [RawAt(blks, BlockTS) EXCEPT !.Link = TS(0, size)])
         /\ last' = Call("EndFile", BlockTS, "nil", size)
    /\ prev' = last
    /\ UNCHANGED <<pc, bam, dirTS, diskName, dirs, allocs, walk, file>>

\* (*RawBlock)(d.Block(ts)).Link = next
DoSetLink ==
    /\ pc = "ready"
    /\ last.op = "Init"
    /\ blks' = PutRaw(blks, BlockTS, [RawAt(blks, BlockTS) EXCEPT !.Link = LinkedTS])
    /\ last' = Call("SetLink", BlockTS, "nil", 0)
    /\ prev' = last
    /\ UNCHANGED <<pc, bam, dirTS, diskName, dirs, allocs, walk, file>>

\* fb.Len() on the block as a *PrgBlock or as a *RawBlock
DoLen ==
    /\ pc = "ready"
    /\ last.op \in {"EndFile", "SetLink"}
    /\ \E kind \in {"prg", "raw"} :
         last' = Call("Len", BlockTS, kind, FBLen(blks, FB(kind, BlockTS)))
    /\ prev' = last
    /\ UNCHANGED <<pc, bam, dirTS, diskName, dirs, blks, allocs, walk, file>>

\* fb.Bytes() on the same block, seen the same way
DoBytes ==
    /\ pc = "ready"
    /\ last.op = "Len"
    /\ \E r \in {FBBytes(blks, FB(last.res, BlockTS))} :
         /\ pc' = IF r.res = "panic" THEN "panic" ELSE pc
         /\ last' = Call("Bytes", BlockTS, last.res, Len(r.bytes))
    /\ prev' = last
    /\ UNCHANGED <<bam, dirTS, diskName, dirs, blks, allocs, walk, file>>

NextBlockOps == DoImgInit \/ DoEndFile \/ DoSetLink \/ DoLen \/ DoBytes

SpecBlock == NewImage /\ [][NextBlockOps]_vars

\* C18: Len() of a file block, program or raw, is the number of bytes its
\* Bytes() returns: 254 for a block that is not terminal and the link's
\* sector byte for a terminal block.
C18_LenIsLenOfBytes ==
    last.op = "Bytes" =>
        LET link == RawAt(blks, BlockTS).Link IN
        /\ pc = "ready"
        /\ prev.arg = last.arg
        /\ last.arg = IF link.T = 0 THEN link.S ELSE dataSize

----------------------------------------------------------------------------
(* The chain of a written file *)

\* The addresses of the blocks of the chain from ts on, link by link
RECURSIVE FileChain(_, _, _)
FileChain(b, ts, fuel) ==
    LET link == RawAt(b, ts).Link IN
    IF fuel = 0 THEN << >>
    ELSE IF link.T = 0 \/ ~IsValid(link) THEN <<ts>>
    ELSE <<ts>> \o FileChain(b, link, fuel - 1)

\* The BAM m after bam.Alloc of each address of the sequence c
RECURSIVE AllocEach(_, _)
AllocEach(m, c) ==
    IF c = << >> THEN m ELSE AllocEach(BAMAlloc(m, Head(c)).map, Tail(c))

\* The chunks of an input of n bytes: the load address and up to 252 bytes
\* in the first block, up to 254 bytes in each further block
ChunkCount(n) ==
    IF n - 2 <= prgDataSize THEN 1
    ELSE 1 + ((n - 2 - prgDataSize + dataSize - 1) \div dataSize)
FinalChunk(n) ==
    IF n - 2 <= prgDataSize THEN n - 2
    ELSE ((n - 2 - prgDataSize - 1) % dataSize) + 1

\* The first block of the only file of the directory
FirstBlock == DirAt(dirs, dirTS).Files[1].FileTS

\* C19: after createFile on the fresh image the chain from the entry's
\* first block has one block for each chunk, all different, valid,
\* available before and allocated now; the last block has link track 0 and
\* the byte count of the final chunk as link sector; and the BAM differs
\* from the one before by the blocks of the chain alone.
C19_ChainOfWrittenFile ==
    (last.op = "CreateFile" /\ last.res = "nil") =>
        LET c == FileChain(blks, FirstBlock, totalBlockCount)
            tail == RawAt(blks, c[Len(c)])
        IN  /\ Len(c) = ChunkCount(Len(buf))
            /\ Cardinality({c[i] : i \in 1..Len(c)}) = Len(c)
            /\ \A i \in 1..Len(c) :
                  /\ BlockResult(c[i]) = "ok"
                  /\ Avail(last.before.bam, c[i]) = "true"
                  /\ Avail(bam, c[i]) = "false"
            /\ tail.Link = TS(0, FinalChunk(Len(buf)))
            /\ bam = AllocEach(last.before.bam, c)
            /\ DOMAIN blks = {c[i] : i \in 1..Len(c)}

C19_Witness ==
    /\ last.op = "CreateFile"
    /\ last.res = "nil"
    /\ Len(buf) = 1280
    /\ Len(FileChain(blks, FirstBlock, totalBlockCount)) = 6

----------------------------------------------------------------------------
(* SpecShare: two allocators with the default policy on the same BAM *)

\* The Alloc calls stop when this many blocks have been taken since Init
MaxTaken == 40

\* The blocks taken since Init: what the Counts have gone down by
RECURSIVE SumCounts(_, _)
SumCounts(m, t) == IF t = 0 THEN 0 ELSE m[t].Count + SumCounts(m, t - 1)
Taken(m) == SumCounts(BAMInitLoop(0, 0, ZeroAvailMap), totalTrackCount) - 2
            - SumCounts(m, totalTrackCount)

\* a := bam.NewAllocator(), for the first or the second allocator, at any time
DoNewSharedAllocator ==
    /\ pc = "ready"
    /\ \E id \in {1, 2} \ DOMAIN allocs :
         /\ allocs' = [x \in (DOMAIN allocs) \cup {id} |->
                          IF x = id THEN NewAllocator ELSE allocs[x]]
         /\ last' = Call("NewAllocator", NewAllocator.TS, "nil", id)
    /\ prev' = last
    /\ UNCHANGED <<pc, bam, dirTS, diskName, dirs, blks, walk, file>>

\* a.Alloc() on either allocator
DoSharedAlloc ==
    /\ pc = "ready"
    /\ Taken(bam) < MaxTaken
    /\ \E id \in DOMAIN allocs :
         \E r \in {AllocatorAlloc(bam, allocs[id])} :
            /\ bam' = r.map
            /\ allocs' = [allocs EXCEPT ![id] = r.a]
            /\ pc' = IF r.res = "panic" THEN "panic" ELSE pc
            /\ last' = Call("AAlloc", r.ts, r.res, id)
    /\ prev' = last
    /\ UNCHANGED <<dirTS, diskName, dirs, blks, walk, file>>

NextShare == DoImgInit \/ DoNewSharedAllocator \/ DoSharedAlloc

SpecShare == NewImage /\ [][NextShare]_vars

\* C20: an address that Alloc of an allocator with the default policy
\* returns, if not the zero address, is valid, was available before the call
\* and is unavailable after it, is not on track 18, and is the only change
\* of the BAM; two calls in a row, by the same or by different allocators,
\* do not return the same address.
C20_AllocReturnsFreshBlock ==
    (/\ IsAAlloc(last)
     /\ last.before.allocs[last.arg].NextTrack = "default"
     /\ last.ts # ZeroTS)
        => /\ last.res = "nil"
           /\ IsValid(last.ts)
           /\ BlockResult(last.ts) = "ok"
           /\ Avail(last.before.bam, last.ts) = "true"
           /\ Avail(bam, last.ts) = "false"
           /\ last.ts.T # bamTrack
           /\ bam = BAMAlloc(last.before.bam, last.ts).map
           /\ IsAAlloc(prev) => prev.ts # last.ts

C20_Witness ==
    /\ IsAAlloc(last) /\ IsAAlloc(prev)
    /\ last.arg # prev.arg
    /\ last.ts # ZeroTS /\ prev.ts # ZeroTS
    /\ last.before.allocs[last.arg].TS # last.ts

----------------------------------------------------------------------------
(* SpecFill: one default allocator on a freshly initialised image, Alloc   *)
(* called again and again                                                  *)

NextFill ==
    \/ DoImgInit
    \/ DoNewAllocator
    \/ DoAllocatorAlloc

SpecFill == NewImage /\ [][NextFill]_vars

\* The bit of a real sector in the map, read without BAM.Entry
BitIsSet(m, ts) == BitAnd(m[ts.T].free[BitIndex(ts) + 1], BitMask(ts)) > 0

\* The tracks the default policy visits: 19..35, then 17..1
PolicyTracks == (1..totalTrackCount) \ {bamTrack}

\* C21 as claimed: Alloc on the default allocator of a fresh image never
\* aborts; a block it returns lies on a track of the policy; and DiskFull is
\* returned only when no real sector of any track of the policy is
\* available, the blocks of the tracks above 18 and of tracks 17 down to 1
\* having been handed out.
C21_AllocRunsToDiskFull ==
    IsAAlloc(last) =>
        /\ last.res # "panic"
        /\ GaveBlock(last) => last.ts.T \in PolicyTracks
        /\ last.res = "DiskFull" =>
              \A t \in PolicyTracks : \A s \in RealSectors(t) :
                  ~BitIsSet(bam, TS(t, s))

----------------------------------------------------------------------------
(* SpecProbe: one BAM.Avail, BAM.Alloc or BAM.Free call with any address   *)
(* on the freshly initialised image                                        *)

\* bam.Avail(ts) right after Init
DoAvailAny ==
    /\ pc = "ready"
    /\ last.op = "Init"
    /\ \E t \in Uint8, s \in Uint8 :
         \E r \in {Avail(bam, TS(t, s))} :
            /\ pc' = IF r = "panic" THEN "panic" ELSE pc
            /\ last' = Call("Avail", TS(t, s), r, 0)
    /\ prev' = last
    /\ UNCHANGED <<bam, dirTS, diskName, dirs, blks, allocs, walk, file>>

NextProbe == DoImgInit \/ DoAvailAny \/ DoAllocAny \/ DoFreeAny

SpecProbe == NewImage /\ [][NextProbe]_vars

\* The address is one of a 35-track disk: track 1..35, sector below the
\* track's count
OnDisk(ts) == InFormat(ts) /\ ts.T <= totalTrackCount

\* C22 as claimed: on the freshly initialised image, for every valid address
\* of tracks 1..35 other than {18,0} and {18,1}, Avail returns true without
\* aborting and Alloc succeeds; track 35 included.
C22_EveryTrackUsable ==
    (/\ last.op \in {"Avail", "Alloc"}
     /\ OnDisk(last.ts)
     /\ last.ts \notin {TS(bamTrack, 0), TS(bamTrack, 1)}) =>
        /\ last.op = "Avail" => last.res = "true"
        /\ last.op = "Alloc" => last.res = "nil"

----------------------------------------------------------------------------
(* SpecOpen: a file of the diskFS opened more than once and read, also     *)
(* after io.EOF                                                            *)

\* The path separator and the name "."
Slash == <<47>>
Dot == <<46>>

\* diskFS.Open of the path dir \o file (path.Split): [res, name]; res is
\* "nil" with the entry of dfs.files (the one dirEntryFile that
\* loadDirEntries made for the name, not a copy), "root" for the rootFile,
\* or "ErrNotExist"
Open(dfsName, files, dir, name) ==
    IF dir = << >> /\ name = Dot THEN [res |-> "root", name |-> name]
    ELSE IF dir = dfsName \o Slash
    THEN IF name \in DOMAIN files THEN [res |-> "nil", name |-> name]
         ELSE [res |-> "ErrNotExist", name |-> name]
    ELSE IF dir = << >> /\ name = dfsName THEN [res |-> "root", name |-> name]
    ELSE [res |-> "ErrNotExist", name |-> name]

\* The sizes of the buffers given to Read on an opened file
OpenReadSizes == {100, dataSize, 2 * dataSize}

\* f, err := fsys.Open(path); out collects what the handle delivers
DoOpen ==
    /\ pc = "ready"
    /\ last.op \in {"FS", "Open", "Read"}
    /\ \E dir \in {<< >>, UnpadBytes(diskName) \o Slash},
          name \in DOMAIN fh \cup {Dot, UnpadBytes(diskName)} :
         \E r \in {Open(UnpadBytes(diskName), fh, dir, name)} :
            /\ last' = Call("Open",
                            IF r.res = "nil" THEN fh[name].iter.ts ELSE ZeroTS,
                            r.res, name)
    /\ out' = << >>
    /\ prev' = last
    /\ UNCHANGED <<pc, bam, dirTS, diskName, dirs, blks, allocs, walk, buf, fh>>

\* f.Read(dest) on the handle Open returned last, also after io.EOF
DoReadOpened ==
    /\ pc = "ready"
    /\ \/ last.op = "Open" /\ last.res = "nil"
       \/ last.op = "Read"
    /\ Len(out) < MaxOut
    /\ \E name \in DOMAIN fh, n \in OpenReadSizes :
         \E r \in {Read(blks, fh[name], n)} :
            /\ fh' = [fh EXCEPT ![name] = r.f]
            /\ out' = out \o r.bytes
            /\ pc' = IF r.res = "panic" THEN "panic" ELSE pc
            /\ last' = Call("Read", r.f.iter.ts, r.res,
                            [n |-> n, got |-> Len(r.bytes)])
    /\ prev' = last
    /\ UNCHANGED <<bam, dirTS, diskName, dirs, blks, allocs, walk, buf>>

NextOpen == DoImgInit \/ DoCreateFile \/ DoFS \/ DoOpen \/ DoReadOpened

SpecOpen == NewImage /\ [][NextOpen]_vars

\* The file the last call was about
LastFile == fh[CHOOSE name \in DOMAIN fh : TRUE]

\* C23 as claimed: the first Read on a handle that Open has just returned
\* delivers the file from its first byte (the first bytes of the payload of
\* its chain, all of them when it returns io.EOF, a full buffer when it does
\* not), whatever was read from earlier handles of the same path; and a
\* Read after a Read that returned io.EOF delivers no byte.
C23_OpenReadsFromStart ==
    /\ (prev.op = "Open" /\ last.op = "Read" /\ last.res # "panic") =>
          /\ IsPrefix(out, PayloadOf(LastFile))
          /\ last.res = "EOF" => out = PayloadOf(LastFile)
          /\ last.res = "nil" => Len(out) = last.arg.n
    /\ (prev.op = "Read" /\ prev.res = "EOF" /\ last.op = "Read") =>
          (last.res = "EOF" /\ last.arg.got = 0)

----------------------------------------------------------------------------
(* Sectors a track does not have, under SpecBAM *)

\* The sector numbers below 32 that track ts.T does not have
NoSuchSector(ts) ==
    /\ ts.T \in 1..totalTrackCount
    /\ SectorsPerTrack(ts.T) <= ts.S
    /\ ts.S <= 31

\* C24 as claimed: Alloc and Free of a sector its track does not have
\* return an error without aborting and leave the BAM unchanged; so a
\* track's Count is 0 only when none of its real sectors is available, and
\* Alloc succeeds on a real sector that Avail reported available.
C24_NoSuchSectorRejected ==
    /\ (last.op \in {"Alloc", "Free"} /\ NoSuchSector(last.ts)) =>
          /\ last.res \notin {"nil", "panic"}
          /\ bam = last.before.bam
    /\ \A t \in 1..totalTrackCount :
          bam[t].Count = 0 => \A s \in RealSectors(t) : ~BitIsSet(bam, TS(t, s))
    /\ (/\ last.op = "Alloc"
        /\ OnDisk(last.ts)
        /\ Avail(last.before.bam, last.ts) = "true") => last.res = "nil"

=============================================================================
